---- MODULE Spec2Model ----
(***************************************************************************)
(* Flamingo (src/src/open_flamingo/flamingo.py): the conditioning protocol *)
(* of Flamingo.forward and Flamingo.generate on one model instance.        *)
(*                                                                         *)
(* The decoder layers of the language model carry mutable conditioning     *)
(* state.  Each call is modelled statement by statement, so that a raise   *)
(* between two statements and the interleaving of two overlapping calls    *)
(* are behaviours of the model.                                            *)
(***************************************************************************)
EXTENDS Integers, Sequences, FiniteSets

\* ---------------------------------------------------------------- bounds
NumLayers == 2      \* decoder layers of the language model
NumImages == 2      \* distinct image batches a caller may pass
NumTokens == 2      \* vocabulary size
MaxPrefix == 2      \* longest lang_x given to the first call
MaxLength == 3      \* largest max_length given to the first generate call
CallPrefix == 1     \* longest lang_x of the calls that follow
CallMaxLength == 2  \* largest max_length of the calls that follow

Layers == 1..NumLayers
Images == 1..NumImages
Tokens == 1..NumTokens
\* Two callers share the one model instance: their calls are serialized, or
\* the two calls overlap.
Callers == {1, 2}

\* Python's None for the optional tensors attention_mask and labels.
None == 0

\* ------------------------------------------------------- tensors in play
\* A layer that holds no visual features.
Unconditioned == [kind |-> "unconditioned", img |-> 0]
\* The value of a local that has not been assigned yet.
Unset == [kind |-> "unset", img |-> 0]

\* self.vision_encoder(vision_x).last_hidden_state: the injected encoder, a
\* map of the image batch.
vision_encoder(vision_x) == [kind |-> "last_hidden_state", img |-> vision_x]

\* self.lang_encoder.perceiver_resampler(vision_attended)
perceiver_resampler(vision_attended) ==
    [kind |-> "resampled", img |-> vision_attended.img]

\* layer.condition(vision_attended) on layer l of the decoder.
condition(layers, l, vision_attended) == [layers EXCEPT ![l] = vision_attended]

\* self.lang_encoder.clear_conditioned_layers()
clear_conditioned_layers(layers) == [l \in Layers |-> Unconditioned]

\* The language model's forward hands the feature tensor to every layer.
condition_all(layers, vision_attended) == [l \in Layers |-> vision_attended]

\* One pass through the decoder: every layer's cross-attention reads the
\* features stored on that layer.
layer_reads(layers) == {layers[l] : l \in Layers}

\* The language model's output: determined by the token batch, the mask, the
\* labels and what each layer's cross-attention read.
lang_encoder_forward(layers, lang_x, attention_mask, labels) ==
    [input_ids |-> lang_x, attention_mask |-> attention_mask,
     labels |-> labels, vis |-> [l \in Layers |-> layers[l]]]

NoOutput == [input_ids |-> <<>>, attention_mask |-> None, labels |-> None,
             vis |-> [l \in Layers |-> Unset]]

\* ---------------------------------------------------- generate's arguments
\* The defaults of generate's signature (floats in tenths).
DefaultHyper ==
    [attention_mask |-> None, num_beams |-> 1, temperature |-> 10, top_k |-> 0,
     top_p |-> 10, no_repeat_ngram_size |-> 0, length_penalty |-> 10,
     num_return_sequences |-> 1, do_sample |-> FALSE, early_stopping |-> FALSE]

\* A caller that sets every decoding hyperparameter.
TunedHyper ==
    [attention_mask |-> 1, num_beams |-> 3, temperature |-> 7, top_k |-> 50,
     top_p |-> 9, no_repeat_ngram_size |-> 2, length_penalty |-> 12,
     num_return_sequences |-> 1, do_sample |-> TRUE, early_stopping |-> TRUE]

Hypers == {DefaultHyper, TunedHyper}

Prefixes(n) == UNION {[1..k -> Tokens] : k \in 1..n}

NoArgs == [op |-> "none", vision_x |-> 0, lang_x |-> <<>>, labels |-> None,
           max_length |-> 0, eoc_token_id |-> 0, hp |-> DefaultHyper]

ForwardInputs(n) ==
    {[op |-> "forward", vision_x |-> v, lang_x |-> x, labels |-> lb,
      max_length |-> 0, eoc_token_id |-> 0, hp |-> h] :
        v \in Images, x \in Prefixes(n), lb \in {None, 1},
        h \in {DefaultHyper, [DefaultHyper EXCEPT !.attention_mask = 1]}}

GenerateInputs(n, m) ==
    {[op |-> "generate", vision_x |-> v, lang_x |-> x, labels |-> None,
      max_length |-> ml, eoc_token_id |-> e, hp |-> h] :
        v \in Images, x \in Prefixes(n), ml \in 1..m, e \in Tokens,
        h \in Hypers}

\* The keyword arguments of self.lang_encoder.generate(...).
NoCall == [input_ids |-> <<>>, attention_mask |-> None, max_length |-> 0,
           eos_token_id |-> 0, num_beams |-> 0, temperature |-> 0,
           top_k |-> 0, top_p |-> 0, no_repeat_ngram_size |-> 0,
           length_penalty |-> 0, num_return_sequences |-> 0,
           do_sample |-> FALSE, early_stopping |-> FALSE]

\* Variant: top_k and no_repeat_ngram_size change places in the call.
generate_kwargs_swapped(a) ==
    [input_ids |-> a.lang_x,
     attention_mask |-> a.hp.attention_mask,
     max_length |-> a.max_length,
     eos_token_id |-> a.eoc_token_id,
     num_beams |-> a.hp.num_beams,
     temperature |-> a.hp.temperature,
     top_k |-> a.hp.no_repeat_ngram_size,
     top_p |-> a.hp.top_p,
     no_repeat_ngram_size |-> a.hp.top_k,
     length_penalty |-> a.hp.length_penalty,
     num_return_sequences |-> a.hp.num_return_sequences,
     do_sample |-> a.hp.do_sample,
     early_stopping |-> a.hp.early_stopping]

\* The keyword arguments Flamingo.generate gives self.lang_encoder.generate.
generate_kwargs(a) ==
    [input_ids |-> a.lang_x,
     attention_mask |-> a.hp.attention_mask,
     max_length |-> a.max_length,
     eos_token_id |-> a.eoc_token_id,
     num_beams |-> a.hp.num_beams,
     temperature |-> a.hp.temperature,
     top_k |-> a.hp.top_k,
     top_p |-> a.hp.top_p,
     no_repeat_ngram_size |-> a.hp.no_repeat_ngram_size,
     length_penalty |-> a.hp.length_penalty,
     num_return_sequences |-> a.hp.num_return_sequences,
     do_sample |-> a.hp.do_sample,
     early_stopping |-> a.hp.early_stopping]

\* transformers' MaxLengthCriteria: the sequence has reached max_length.
MaxLengthCriteria(input_ids, max_length) == Len(input_ids) >= max_length

\* The decoding loop's exit test after a token was appended: the token is the
\* end-of-sequence token, or the stopping criterion holds.
decoding_done(input_ids, next_token, kw) ==
    \/ next_token = kw.eos_token_id
    \/ MaxLengthCriteria(input_ids, kw.max_length)

\* ------------------------------------------------------------------ state
VARIABLES
    mutex,       \* TRUE: the callers are serialized (external mutual exclusion)
    cond,        \* per decoder layer: the visual features it is conditioned on
    pc,          \* per caller: the statement its call is at
    args,        \* per caller: the arguments of its call
    feat,        \* per caller: the local vision_attended
    layer_i,     \* per caller: the layer the conditioning loop is at
    lm_call,     \* per caller: the keyword arguments given to lang_encoder.generate
    seq,         \* per caller: the sequence being extended by the decoding loop
    reads,       \* per caller: what the layer invocations of its call have read
    fwd_output,  \* per caller: forward's local output
    gen_output,  \* per caller: the sequence generate returned
    failed_at,   \* per caller: the statement that raised
    stale_at_call,\* per caller: a layer held another input's features when its call started
    steps,       \* per caller: the statements its call has executed, in order
    ever_failed, \* some call has raised
    gen_done     \* some generate call has completed

vars == <<mutex, cond, pc, args, feat, layer_i, lm_call, seq, reads,
          fwd_output, gen_output, failed_at, stale_at_call, steps,
          ever_failed, gen_done>>

\* Caller c's call is executing: it has neither returned nor raised.
Active(c) == pc[c] \notin {"idle", "returned", "raised"}
\* No caller is inside a call or holds an undelivered result.
AllIdle == \A c \in Callers : pc[c] = "idle"

\* The state of the layers after Flamingo.__init__: nothing is conditioned.
InitLayers == [l \in Layers |-> Unconditioned]

InitLocals ==
    /\ cond = InitLayers
    /\ feat = [c \in Callers |-> Unset]
    /\ layer_i = [c \in Callers |-> 0]
    /\ lm_call = [c \in Callers |-> NoCall]
    /\ seq = [c \in Callers |-> <<>>]
    /\ reads = [c \in Callers |-> {}]
    /\ fwd_output = [c \in Callers |-> NoOutput]
    /\ gen_output = [c \in Callers |-> <<>>]
    /\ failed_at = [c \in Callers |-> "none"]
    /\ stale_at_call = [c \in Callers |-> FALSE]
    /\ steps = [c \in Callers |-> <<>>]
    /\ ever_failed = FALSE
    /\ gen_done = FALSE

\* A freshly constructed model; the callers are serialized or not.
Init ==
    /\ mutex \in BOOLEAN
    /\ pc = [c \in Callers |-> "idle"]
    /\ args = [c \in Callers |-> NoArgs]
    /\ InitLocals

\* A freshly constructed model with serialized callers, the first call under
\* way, its arguments drawn from the whole input domain.
InitSerial ==
    /\ mutex = TRUE
    /\ \E a \in ForwardInputs(MaxPrefix) \cup GenerateInputs(MaxPrefix, MaxLength) :
          /\ args = [c \in Callers |-> IF c = 1 THEN a ELSE NoArgs]
          /\ pc = [c \in Callers |->
                     IF c # 1 THEN "idle"
                     ELSE IF a.op = "forward" THEN "fwd_encode" ELSE "gen_encode"]
    /\ InitLocals

\* ---------------------------------------------------------------- a call
\* The forward and generate calls that follow the first one.
CallInputs ==
    {a \in ForwardInputs(CallPrefix) :
        (a.labels = None) = (a.hp.attention_mask = None)}
    \cup {a \in GenerateInputs(CallPrefix, CallMaxLength) : a.hp = DefaultHyper}

\* Overlapping calls: the conditioning protocol depends on the operation and
\* the images only, so the token-level arguments are held fixed (a one-token
\* prefix, a single decoding pass).
OverlapInputs ==
    {a \in CallInputs :
        /\ Len(a.lang_x) = 1 /\ a.lang_x[1] = 1
        /\ a.labels = None
        /\ a.op = "generate" => a.max_length = 1 /\ a.eoc_token_id = NumTokens}

\* The features a call with arguments a puts on the layers.
OwnFeatures(a) ==
    {vision_encoder(a.vision_x), perceiver_resampler(vision_encoder(a.vision_x))}

\* Caller c calls forward or generate.  Under mutual exclusion a call starts
\* only when no other call is executing or still has to hand back its result.
Call(c) ==
    /\ pc[c] = "idle"
    /\ mutex => AllIdle
    /\ \E a \in (IF mutex THEN CallInputs ELSE OverlapInputs) :
          /\ args' = [args EXCEPT ![c] = a]
          /\ pc' = [pc EXCEPT ![c] =
                       IF a.op = "forward" THEN "fwd_encode" ELSE "gen_encode"]
          /\ stale_at_call' = [stale_at_call EXCEPT ![c] =
                \E l \in Layers : cond[l] \notin OwnFeatures(a) \cup {Unconditioned}]
    /\ UNCHANGED <<mutex, cond, feat, layer_i, lm_call, seq, reads, fwd_output,
                   gen_output, failed_at, steps, ever_failed, gen_done>>

\* The caller has received the result or the exception: the frame of the
\* call is gone.
Done(c) ==
    /\ pc[c] \in {"returned", "raised"}
    /\ pc' = [pc EXCEPT ![c] = "idle"]
    /\ args' = [args EXCEPT ![c] = NoArgs]
    /\ feat' = [feat EXCEPT ![c] = Unset]
    /\ layer_i' = [layer_i EXCEPT ![c] = 0]
    /\ lm_call' = [lm_call EXCEPT ![c] = NoCall]
    /\ seq' = [seq EXCEPT ![c] = <<>>]
    /\ reads' = [reads EXCEPT ![c] = {}]
    /\ fwd_output' = [fwd_output EXCEPT ![c] = NoOutput]
    /\ gen_output' = [gen_output EXCEPT ![c] = <<>>]
    /\ failed_at' = [failed_at EXCEPT ![c] = "none"]
    /\ stale_at_call' = [stale_at_call EXCEPT ![c] = FALSE]
    /\ steps' = [steps EXCEPT ![c] = <<>>]
    /\ UNCHANGED <<mutex, cond, ever_failed, gen_done>>

\* The statement caller c is at raises: the exception leaves the call.
Raise(c, where) ==
    /\ pc' = [pc EXCEPT ![c] = "raised"]
    /\ failed_at' = [failed_at EXCEPT ![c] = where]
    /\ ever_failed' = TRUE
    /\ UNCHANGED <<mutex, cond, args, feat, layer_i, lm_call, seq, reads,
                   fwd_output, gen_output, stale_at_call, steps, gen_done>>

Step(c, name) == steps' = [steps EXCEPT ![c] = Append(steps[c], name)]

\* ---------------------------------------------------------------- forward
\* vision_attended = self.vision_encoder(vision_x)
FwdEncode(c) ==
    /\ pc[c] = "fwd_encode"
    /\ feat' = [feat EXCEPT ![c] = vision_encoder(args[c].vision_x)]
    /\ pc' = [pc EXCEPT ![c] = "fwd_lang"]
    /\ Step(c, "vision_encoder")
    /\ UNCHANGED <<mutex, cond, args, layer_i, lm_call, seq, reads, fwd_output,
                   gen_output, failed_at, stale_at_call, ever_failed, gen_done>>

\* self.vision_encoder(vision_x) raises.
FwdEncodeRaise(c) ==
    /\ pc[c] = "fwd_encode"
    /\ Raise(c, "vision_encoder")

\* Variant: the features reach only the layers that hold none.
FwdLangConditionKeepConditioned(c) ==
    /\ pc[c] = "fwd_lang"
    /\ cond' = [l \in Layers |->
                  IF cond[l] = Unconditioned THEN feat[c] ELSE cond[l]]
    /\ pc' = [pc EXCEPT ![c] = "fwd_run"]
    /\ Step(c, "condition")
    /\ UNCHANGED <<mutex, args, feat, layer_i, lm_call, seq, reads, fwd_output,
                   gen_output, failed_at, stale_at_call, ever_failed, gen_done>>

\* output = self.lang_encoder(vision_attended.last_hidden_state, lang_x, ...):
\* the language model first hands the features to every layer ...
FwdLangCondition(c) ==
    /\ pc[c] = "fwd_lang"
    /\ cond' = condition_all(cond, feat[c])
    /\ pc' = [pc EXCEPT ![c] = "fwd_run"]
    /\ Step(c, "condition")
    /\ UNCHANGED <<mutex, args, feat, layer_i, lm_call, seq, reads, fwd_output,
                   gen_output, failed_at, stale_at_call, ever_failed, gen_done>>

\* ... and then runs the decoder, every layer reading its stored features.
FwdLangRun(c) ==
    /\ pc[c] = "fwd_run"
    /\ reads' = [reads EXCEPT ![c] = reads[c] \cup layer_reads(cond)]
    /\ fwd_output' = [fwd_output EXCEPT ![c] =
          lang_encoder_forward(cond, args[c].lang_x, args[c].hp.attention_mask,
                               args[c].labels)]
    /\ pc' = [pc EXCEPT ![c] = "fwd_clear"]
    /\ Step(c, "lang_encoder")
    /\ UNCHANGED <<mutex, cond, args, feat, layer_i, lm_call, seq, gen_output,
                   failed_at, stale_at_call, ever_failed, gen_done>>

\* self.lang_encoder(...) raises, before or after it conditioned the layers.
FwdLangRaise(c) ==
    /\ pc[c] \in {"fwd_lang", "fwd_run"}
    /\ Raise(c, IF pc[c] = "fwd_lang" THEN "lang_encoder_early" ELSE "lang_encoder")

\* Variant: forward returns without clearing the layers.
FwdClearSkipped(c) ==
    /\ pc[c] = "fwd_clear"
    /\ pc' = [pc EXCEPT ![c] = "returned"]
    /\ Step(c, "clear_conditioned_layers")
    /\ UNCHANGED <<mutex, cond, args, feat, layer_i, lm_call, seq, reads,
                   fwd_output, gen_output, failed_at, stale_at_call, ever_failed, gen_done>>

\* self.lang_encoder.clear_conditioned_layers(); return output
FwdClear(c) ==
    /\ pc[c] = "fwd_clear"
    /\ cond' = clear_conditioned_layers(cond)
    /\ pc' = [pc EXCEPT ![c] = "returned"]
    /\ Step(c, "clear_conditioned_layers")
    /\ UNCHANGED <<mutex, args, feat, layer_i, lm_call, seq, reads, fwd_output,
                   gen_output, failed_at, stale_at_call, ever_failed, gen_done>>

\* --------------------------------------------------------------- generate
\* vision_attended = self.vision_encoder(vision_x).last_hidden_state
GenEncode(c) ==
    /\ pc[c] = "gen_encode"
    /\ feat' = [feat EXCEPT ![c] = vision_encoder(args[c].vision_x)]
    /\ pc' = [pc EXCEPT ![c] = "gen_resample"]
    /\ Step(c, "vision_encoder")
    /\ UNCHANGED <<mutex, cond, args, layer_i, lm_call, seq, reads, fwd_output,
                   gen_output, failed_at, stale_at_call, ever_failed, gen_done>>

\* Variant: the exception passes through a cleanup of the layers.
GenEncodeRaiseCleanup(c) ==
    /\ pc[c] = "gen_encode"
    /\ failed_at' = [failed_at EXCEPT ![c] = "vision_encoder"]
    /\ pc' = [pc EXCEPT ![c] = "raised"]
    /\ ever_failed' = TRUE
    /\ cond' = clear_conditioned_layers(cond)
    /\ UNCHANGED <<mutex, args, feat, layer_i, lm_call, seq, reads, fwd_output,
                   gen_output, stale_at_call, steps, gen_done>>

\* self.vision_encoder(vision_x) raises.
GenEncodeRaise(c) ==
    /\ pc[c] = "gen_encode"
    /\ Raise(c, "vision_encoder")

\* Variant: the resampler is left out, the layers get the encoder's output.
GenResampleSkipped(c) ==
    /\ pc[c] = "gen_resample"
    /\ pc' = [pc EXCEPT ![c] = "gen_condition"]
    /\ UNCHANGED <<mutex, cond, args, feat, layer_i, lm_call, seq, reads,
                   fwd_output, gen_output, failed_at, stale_at_call, steps,
                   ever_failed, gen_done>>

\* vision_attended = self.lang_encoder.perceiver_resampler(vision_attended)
GenResample(c) ==
    /\ pc[c] = "gen_resample"
    /\ feat' = [feat EXCEPT ![c] = perceiver_resampler(feat[c])]
    /\ pc' = [pc EXCEPT ![c] = "gen_condition"]
    /\ Step(c, "perceiver_resampler")
    /\ UNCHANGED <<mutex, cond, args, layer_i, lm_call, seq, reads, fwd_output,
                   gen_output, failed_at, stale_at_call, ever_failed, gen_done>>

\* self.lang_encoder.perceiver_resampler(vision_attended) raises.
GenResampleRaise(c) ==
    /\ pc[c] = "gen_resample"
    /\ Raise(c, "perceiver_resampler")

\* Variant: a layer that already holds features keeps them.
GenConditionKeepConditioned(c) ==
    /\ pc[c] = "gen_condition"
    /\ layer_i[c] < NumLayers
    /\ cond' = IF cond[layer_i[c] + 1] = Unconditioned
               THEN condition(cond, layer_i[c] + 1, feat[c]) ELSE cond
    /\ layer_i' = [layer_i EXCEPT ![c] = layer_i[c] + 1]
    /\ pc' = [pc EXCEPT ![c] =
                 IF layer_i[c] + 1 = NumLayers THEN "gen_call" ELSE "gen_condition"]
    /\ Step(c, "condition")
    /\ UNCHANGED <<mutex, args, feat, lm_call, seq, reads, fwd_output,
                   gen_output, failed_at, stale_at_call, ever_failed, gen_done>>

\* Variant: the loop ends after the first layer.
GenConditionFirstOnly(c) ==
    /\ pc[c] = "gen_condition"
    /\ layer_i[c] < NumLayers
    /\ cond' = condition(cond, layer_i[c] + 1, feat[c])
    /\ layer_i' = [layer_i EXCEPT ![c] = layer_i[c] + 1]
    /\ pc' = [pc EXCEPT ![c] = "gen_call"]
    /\ Step(c, "condition")
    /\ UNCHANGED <<mutex, args, feat, lm_call, seq, reads, fwd_output,
                   gen_output, failed_at, stale_at_call, ever_failed, gen_done>>

\* for layer in self.lang_encoder.model.decoder.layers:
\*     layer.condition(vision_attended)
\* One iteration of the loop.
GenCondition(c) ==
    /\ pc[c] = "gen_condition"
    /\ layer_i[c] < NumLayers
    /\ cond' = condition(cond, layer_i[c] + 1, feat[c])
    /\ layer_i' = [layer_i EXCEPT ![c] = layer_i[c] + 1]
    /\ pc' = [pc EXCEPT ![c] =
                 IF layer_i[c] + 1 = NumLayers THEN "gen_call" ELSE "gen_condition"]
    /\ Step(c, "condition")
    /\ UNCHANGED <<mutex, args, feat, lm_call, seq, reads, fwd_output,
                   gen_output, failed_at, stale_at_call, ever_failed, gen_done>>

\* output = self.lang_encoder.generate(lang_x, attention_mask=..., ...):
\* the decoding routine is entered with the keyword arguments.
GenLangCall(c) ==
    /\ pc[c] = "gen_call"
    /\ lm_call' = [lm_call EXCEPT ![c] = generate_kwargs(args[c])]
    /\ seq' = [seq EXCEPT ![c] = generate_kwargs(args[c]).input_ids]
    /\ pc' = [pc EXCEPT ![c] = "gen_decode"]
    /\ Step(c, "generate")
    /\ UNCHANGED <<mutex, cond, args, feat, layer_i, reads, fwd_output,
                   gen_output, failed_at, stale_at_call, ever_failed, gen_done>>

\* One iteration of the decoding loop: a pass through the decoder (every layer
\* reads its stored features), the next token is appended, and the loop ends
\* on the end-of-sequence token or at max_length.
GenDecodeStep(c) ==
    /\ pc[c] = "gen_decode"
    /\ reads' = [reads EXCEPT ![c] = reads[c] \cup layer_reads(cond)]
    /\ \E next_token \in Tokens :
          /\ seq' = [seq EXCEPT ![c] = Append(seq[c], next_token)]
          /\ pc' = [pc EXCEPT ![c] =
                IF decoding_done(Append(seq[c], next_token), next_token, lm_call[c])
                THEN "gen_clear" ELSE "gen_decode"]
    /\ UNCHANGED <<mutex, cond, args, feat, layer_i, lm_call, fwd_output,
                   gen_output, failed_at, stale_at_call, steps, ever_failed, gen_done>>

\* Variant: the exception passes through a cleanup of the layers.
GenLangRaiseCleanup(c) ==
    /\ pc[c] \in {"gen_call", "gen_decode"}
    /\ failed_at' = [failed_at EXCEPT ![c] = "lang_encoder"]
    /\ pc' = [pc EXCEPT ![c] = "raised"]
    /\ ever_failed' = TRUE
    /\ cond' = clear_conditioned_layers(cond)
    /\ UNCHANGED <<mutex, args, feat, layer_i, lm_call, seq, reads, fwd_output,
                   gen_output, stale_at_call, steps, gen_done>>

\* self.lang_encoder.generate(...) raises.
GenLangRaise(c) ==
    /\ pc[c] \in {"gen_call", "gen_decode"}
    /\ Raise(c, "lang_encoder")

\* Variant: only the newly generated tokens are returned.
GenClearNewTokensOnly(c) ==
    /\ pc[c] = "gen_clear"
    /\ cond' = clear_conditioned_layers(cond)
    /\ gen_output' = [gen_output EXCEPT ![c] =
          SubSeq(seq[c], Len(args[c].lang_x) + 1, Len(seq[c]))]
    /\ pc' = [pc EXCEPT ![c] = "returned"]
    /\ gen_done' = TRUE
    /\ Step(c, "clear_conditioned_layers")
    /\ UNCHANGED <<mutex, args, feat, layer_i, lm_call, seq, reads, fwd_output,
                   failed_at, stale_at_call, ever_failed>>

\* self.lang_encoder.clear_conditioned_layers(); return output
GenClear(c) ==
    /\ pc[c] = "gen_clear"
    /\ cond' = clear_conditioned_layers(cond)
    /\ gen_output' = [gen_output EXCEPT ![c] = seq[c]]
    /\ pc' = [pc EXCEPT ![c] = "returned"]
    /\ gen_done' = TRUE
    /\ Step(c, "clear_conditioned_layers")
    /\ UNCHANGED <<mutex, args, feat, layer_i, lm_call, seq, reads, fwd_output,
                   failed_at, stale_at_call, ever_failed>>

\* ------------------------------------------------------------ the system
Next ==
    \E c \in Callers :
        \/ Call(c)
        \/ Done(c)
        \/ FwdEncode(c)
        \/ FwdEncodeRaise(c)
        \/ FwdLangCondition(c)
        \/ FwdLangRun(c)
        \/ FwdLangRaise(c)
        \/ FwdClear(c)
        \/ GenEncode(c)
        \/ GenEncodeRaise(c)
        \/ GenResample(c)
        \/ GenResampleRaise(c)
        \/ GenCondition(c)
        \/ GenLangCall(c)
        \/ GenDecodeStep(c)
        \/ GenLangRaise(c)
        \/ GenClear(c)

\* Serialized or overlapping callers on a freshly constructed model.
Spec == Init /\ [][Next]_vars

\* Serialized callers, the first call over the whole input domain.
SpecSerial == InitSerial /\ [][Next]_vars

\* ------------------------------------------------------------- the claims
\* Caller c's call has executed the statement named.
Did(c, name) == \E i \in 1..Len(steps[c]) : steps[c][i] = name

\* The tensor generate puts on the layers for arguments a.
GenerateFeatures(a) == perceiver_resampler(vision_encoder(a.vision_x))

\* C1: with serialized calls that all returned normally, every decoder layer
\* is unconditioned whenever no call is executing.
C1_UnconditionedBetweenCalls ==
    (mutex /\ ~ever_failed /\ \A c \in Callers : ~Active(c))
        => \A l \in Layers : cond[l] = Unconditioned

\* C1 witness: a forward call with images has returned, no call ever failed.
C1_Witness ==
    /\ mutex /\ ~ever_failed
    /\ \E c \in Callers : /\ pc[c] = "returned"
                          /\ args[c].op = "forward"
                          /\ reads[c] = {vision_encoder(args[c].vision_x)}

\* What forward returns for arguments a on a freshly constructed model.
PristineForward(a) ==
    lang_encoder_forward(condition_all(InitLayers, vision_encoder(a.vision_x)),
                         a.lang_x, a.hp.attention_mask, a.labels)

\* C2: whatever calls came before, forward returns what it returns on a
\* pristine model for the same images, tokens, attention mask and labels.
C2_ForwardIndependentOfHistory ==
    \A c \in Callers :
        (pc[c] = "returned" /\ args[c].op = "forward")
            => fwd_output[c] = PristineForward(args[c])

\* C2 witness: a generate call has completed, no call failed, and a forward
\* call with labels has returned.
C2_Witness ==
    /\ gen_done /\ ~ever_failed
    /\ \E c \in Callers : /\ pc[c] = "returned"
                          /\ args[c].op = "forward"
                          /\ args[c].labels # None

\* C3: the sequence generate returns is never longer than max_length, and with
\* early_stopping set no token follows the first generated eoc_token_id.
C3_MaxLengthAndEarlyStop ==
    \A c \in Callers :
        (pc[c] = "returned" /\ args[c].op = "generate")
            => /\ Len(gen_output[c]) <= args[c].max_length
               /\ args[c].hp.early_stopping =>
                     \A i \in (Len(args[c].lang_x) + 1)..(Len(gen_output[c]) - 1) :
                         gen_output[c][i] # args[c].eoc_token_id

\* C4: when the language model raises after the layers were conditioned, the
\* call ends with the exception, the cleanup has not run and every layer
\* still holds the call's visual features.
C4_FailureLeavesConditioning ==
    \A c \in Callers :
        (mutex /\ pc[c] = "raised" /\ failed_at[c] = "lang_encoder")
            => /\ ~Did(c, "clear_conditioned_layers")
               /\ \A l \in Layers : cond[l] = feat[c]

\* C4 witness: generate's decoding raised after a first pass through the
\* decoder.
C4_Witness ==
    \E c \in Callers : /\ mutex
                       /\ pc[c] = "raised"
                       /\ failed_at[c] = "lang_encoder"
                       /\ args[c].op = "generate"
                       /\ Len(seq[c]) > Len(args[c].lang_x)

\* C5 as stated, for a later generate call: a serialized generate call that
\* started on layers still holding the features a failed call left there has
\* a layer invocation that read features other than its own.
C5_StaleFeaturesRead ==
    \A c \in Callers :
        (mutex /\ stale_at_call[c] /\ pc[c] = "returned" /\ args[c].op = "generate")
            => \E r \in reads[c] : r \notin OwnFeatures(args[c])

\* C5 amended: a serialized call that started on layers still holding another
\* input's features reads, in every layer invocation, the features of the call
\* in progress.
C5_StaleFeaturesOverwritten ==
    \A c \in Callers :
        (mutex /\ stale_at_call[c]) => \A r \in reads[c] : r = feat[c]

\* C5 witness: a call that started on stale layers has run the decoder and
\* returned.
C5_Witness ==
    \E c \in Callers : /\ mutex
                       /\ stale_at_call[c]
                       /\ pc[c] = "returned"
                       /\ reads[c] # {}

\* C6: with serialized calls every layer invocation reads the features of its
\* own call.
C6_SerializedReadsOwn ==
    mutex => \A c \in Callers : \A r \in reads[c] : r = feat[c]

\* C6 witness: with overlapping calls, one call has read the features the
\* other call set, and one has read "unconditioned" after the other's cleanup.
C6_Witness ==
    /\ ~mutex
    /\ \E c, d \in Callers :
          /\ c # d
          /\ \E r \in reads[c] : /\ r \in OwnFeatures(args[d])
                                 /\ r \notin OwnFeatures(args[c])
          /\ Unconditioned \in reads[d]

\* C7: the decoding routine receives lang_x, every decoding hyperparameter
\* with its value unchanged, and eoc_token_id as eos_token_id.
C7_KwargsVerbatim ==
    \A c \in Callers :
        Did(c, "generate") =>
            /\ lm_call[c].input_ids = args[c].lang_x
            /\ lm_call[c].attention_mask = args[c].hp.attention_mask
            /\ lm_call[c].max_length = args[c].max_length
            /\ lm_call[c].eos_token_id = args[c].eoc_token_id
            /\ lm_call[c].num_beams = args[c].hp.num_beams
            /\ lm_call[c].temperature = args[c].hp.temperature
            /\ lm_call[c].top_k = args[c].hp.top_k
            /\ lm_call[c].top_p = args[c].hp.top_p
            /\ lm_call[c].no_repeat_ngram_size = args[c].hp.no_repeat_ngram_size
            /\ lm_call[c].length_penalty = args[c].hp.length_penalty
            /\ lm_call[c].num_return_sequences = args[c].hp.num_return_sequences
            /\ lm_call[c].do_sample = args[c].hp.do_sample
            /\ lm_call[c].early_stopping = args[c].hp.early_stopping

\* C7 witness: the decoding routine was entered by a call that sets every
\* hyperparameter.
C7_Witness ==
    \E c \in Callers : /\ Did(c, "generate")
                       /\ args[c].hp = TunedHyper
                       /\ Len(args[c].lang_x) = MaxPrefix

\* C8: lang_x is a prefix of the sequence generate returns.
C8_PrefixPreserved ==
    \A c \in Callers :
        (pc[c] = "returned" /\ args[c].op = "generate")
            => /\ Len(gen_output[c]) >= Len(args[c].lang_x)
               /\ SubSeq(gen_output[c], 1, Len(args[c].lang_x)) = args[c].lang_x

\* C8 witness: generate returned a prefix of two different tokens with a
\* generated token appended.
C8_Witness ==
    \E c \in Callers : /\ pc[c] = "returned"
                       /\ args[c].op = "generate"
                       /\ Len(args[c].lang_x) >= 2
                       /\ args[c].lang_x[1] # args[c].lang_x[2]
                       /\ Len(gen_output[c]) > Len(args[c].lang_x)

\* The statements of one complete generate call, in order.
GenerateSteps ==
    <<"vision_encoder", "perceiver_resampler">>
        \o [l \in Layers |-> "condition"]
        \o <<"generate", "clear_conditioned_layers">>

\* C9: a serialized generate call runs encoder, resampler, conditioning of
\* every layer, decoding and clear in this order; while the decoding routine
\* runs every layer holds the call's resampled tensor, every layer invocation
\* reads it, and the clear comes after the decoding routine has returned.
C9_GenerateOrder ==
    \A c \in Callers :
        (mutex /\ args[c].op = "generate") =>
            /\ Len(steps[c]) <= Len(GenerateSteps)
            /\ steps[c] = SubSeq(GenerateSteps, 1, Len(steps[c]))
            /\ pc[c] \in {"gen_decode", "gen_clear"} =>
                  \A l \in Layers : cond[l] = GenerateFeatures(args[c])
            /\ \A r \in reads[c] : r = GenerateFeatures(args[c])
            /\ Did(c, "clear_conditioned_layers") => pc[c] = "returned"

\* C9 witness: a generate call ran all its statements, its decoding loop
\* made several passes, and it returned.
C9_Witness ==
    \E c \in Callers : /\ mutex
                       /\ args[c].op = "generate"
                       /\ pc[c] = "returned"
                       /\ steps[c] = GenerateSteps
                       /\ reads[c] = {GenerateFeatures(args[c])}
                       /\ Len(gen_output[c]) >= Len(args[c].lang_x) + 2

\* C10: a call that raises in the vision encoder or the resampler, before any
\* layer was conditioned, leaves every layer's conditioning state as it was.
C10_EarlyFailureFrame ==
    [][\A c \in Callers :
          (pc[c] \in {"fwd_encode", "gen_encode", "gen_resample"} /\ pc'[c] = "raised")
              => cond' = cond]_vars

\* C10 witness: a call failed in the encoder or resampler while the layers
\* held features an earlier failed call had left.
C10_Witness ==
    \E c \in Callers : /\ mutex
                       /\ pc[c] = "raised"
                       /\ failed_at[c] \in {"vision_encoder", "perceiver_resampler"}
                       /\ stale_at_call[c]
                       /\ \A l \in Layers : cond[l] # Unconditioned

====
